---- MODULE Spec2Model ----
(***************************************************************************)
(* Targeted revision engine of the screenplay orchestrator                 *)
(* (OrchestratorAgent/orchestrator.py) and of the saga orchestrator         *)
(* (OrchestratorAgent/orchestrator_saga.py).                                *)
(*                                                                         *)
(* Text is a sequence of one-character strings, so that substring tests,   *)
(* str.replace, str.lower, str.split and re.sub are computed, not assumed. *)
(* An optional value (None or a value) is a sequence of length 0 or 1.     *)
(* A key that state.get() finds missing, None or empty is the empty         *)
(* sequence: the code turns all three into [] before it patches.            *)
(***************************************************************************)
EXTENDS Integers, Sequences, FiniteSets, TLC

VARIABLES
    state,      \* self.state of OrchestratorAgent: the document and the transient keys
    pre,        \* self.state as it was when the last update_component call began
    call,       \* the last update_component call: component, feedback, proposal, what it did
    revisions,  \* number of update_component calls and orchestrate_revision runs so far
    orch,       \* the last orchestrate_revision run: its mode, its routing, what it invoked
    saga        \* self.state of the saga OrchestratorAgent: its six components

vars == <<state, pre, call, revisions, orch, saga>>

---------------------------------------------------------------------------
(* Bounds of the model *)

MaxRevisions == 2       \* update_component calls or runs per behaviour
MaxInitScenes == 3      \* scenes in the loaded document
MaxRuns == 1            \* orchestrate_revision runs per behaviour

None == <<>>
Some(x) == <<x>>

---------------------------------------------------------------------------
(* Python string primitives *)

\* the upper-case letters and their lower-case forms
LowerCase ==
    ("A" :> "a") @@ ("B" :> "b") @@ ("C" :> "c") @@ ("D" :> "d") @@ ("E" :> "e") @@ ("F" :> "f")
    @@ ("G" :> "g") @@ ("H" :> "h") @@ ("I" :> "i") @@ ("J" :> "j") @@ ("K" :> "k") @@ ("L" :> "l")
    @@ ("M" :> "m") @@ ("N" :> "n") @@ ("O" :> "o") @@ ("P" :> "p") @@ ("Q" :> "q") @@ ("R" :> "r")
    @@ ("S" :> "s") @@ ("T" :> "t") @@ ("U" :> "u") @@ ("V" :> "v") @@ ("W" :> "w") @@ ("X" :> "x")
    @@ ("Y" :> "y") @@ ("Z" :> "z")

\* str.lower() on one character
Lower(c) == IF c \in DOMAIN LowerCase THEN LowerCase[c] ELSE c

\* str.lower()
LowerStr(s) == [i \in 1..Len(s) |-> Lower(s[i])]

\* the characters str.strip() removes (the blank stands for every kind of whitespace)
Whitespace == {" "}

\* str.strip()
Strip(s) ==
    LET kept == {i \in 1..Len(s) : s[i] \notin Whitespace}
    IN  IF kept = {} THEN <<>>
        ELSE SubSeq(s, CHOOSE a \in kept : \A i \in kept : a <= i,
                       CHOOSE b \in kept : \A i \in kept : i <= b)

\* s[i-1:].startswith(sub), i 1-based
MatchAt(s, sub, i) ==
    /\ i + Len(sub) - 1 <= Len(s)
    /\ SubSeq(s, i, i + Len(sub) - 1) = sub

\* `sub in s`
Contains(s, sub) == \E i \in 1..(Len(s) - Len(sub) + 1) : MatchAt(s, sub, i)

RECURSIVE ReplaceFrom(_, _, _, _)
ReplaceFrom(s, old, new, i) ==
    IF i > Len(s) THEN <<>>
    ELSE IF MatchAt(s, old, i) THEN new \o ReplaceFrom(s, old, new, i + Len(old))
    ELSE <<s[i]>> \o ReplaceFrom(s, old, new, i + 1)

\* PyReplace as s.replace(old, new, 1): the first occurrence only
ReplaceFirstOnly(s, old, new) ==
    IF Contains(s, old)
    THEN LET i == CHOOSE k \in 1..Len(s) :
                      MatchAt(s, old, k) /\ \A j \in 1..(k - 1) : ~MatchAt(s, old, j)
         IN SubSeq(s, 1, i - 1) \o new \o SubSeq(s, i + Len(old), Len(s))
    ELSE s

\* s.replace(old, new) for a non-empty old: every non-overlapping occurrence, left to right
PyReplace(s, old, new) == ReplaceFrom(s, old, new, 1)

\* s.split() is empty: s holds no character other than blanks
SplitIsEmpty(s) == \A i \in 1..Len(s) : s[i] = " "

\* s.split()[0] for an s with at least one token
SplitFirst(s) ==
    LET start == CHOOSE i \in 1..Len(s) :
                     s[i] # " " /\ \A j \in 1..(i - 1) : s[j] = " "
        end == CHOOSE i \in start..Len(s) :
                   /\ \A j \in start..i : s[j] # " "
                   /\ (i = Len(s) \/ s[i + 1] = " ")
    IN SubSeq(s, start, end)

\* `name.split()[0] if ' ' in name else name` raises IndexError
FirstNameRaises(name) == Contains(name, <<" ">>) /\ SplitIsEmpty(name)

\* `name.split()[0] if ' ' in name else name`
FirstName(name) == IF Contains(name, <<" ">>) THEN SplitFirst(name) ELSE name

RECURSIVE SubFrom(_, _, _, _)
SubFrom(s, old, new, i) ==
    IF i > Len(s) THEN <<>>
    ELSE IF MatchAt(LowerStr(s), LowerStr(old), i)
         THEN new \o SubFrom(s, old, new, i + Len(old))
    ELSE <<s[i]>> \o SubFrom(s, old, new, i + 1)

\* re.compile(re.escape(old), re.IGNORECASE).sub(new, s), new holding no backslash
ReSubIgnoreCase(s, old, new) == SubFrom(s, old, new, 1)

---------------------------------------------------------------------------
(* Names and texts the documents and proposals are built from *)

ElenaCross == <<"E", " ", "C">>     \* a two-token name, first token "E"
elenacross == <<"e", " ", "c">>     \* the same name in lower case
MaraCross  == <<"M", " ", "C">>     \* another two-token name
Bob        == <<"B">>               \* a one-token name
Blank      == <<" ">>               \* a name made of white space only
Cafe       == <<"K">>
cafe       == <<"k">>
Park       == <<"P">>
Backslash  == <<"\\">>              \* a name that is one backslash

Truthy(opt) == opt # None /\ opt[1] # <<>>

---------------------------------------------------------------------------
(* Rename propagation *)

\* RenameDialogue with the comparison done ignoring case, as the entity lookup does it
RenameDialogueIgnoreCase(lines, old, new) ==
    [i \in 1..Len(lines) |->
        IF LowerStr(lines[i].character_name) = LowerStr(old)
        THEN [lines[i] EXCEPT !.character_name = new]
        ELSE lines[i]]

\* the loops over dialogue entries: an entry whose character_name == old_name gets new_name
RenameDialogue(lines, old, new) ==
    [i \in 1..Len(lines) |->
        IF lines[i].character_name = old
        THEN [lines[i] EXCEPT !.character_name = new]
        ELSE lines[i]]

\* one free-text field: full name first, else first name
RenameInText(t, old, new) ==
    IF Contains(t, old) THEN PyReplace(t, old, new)
    ELSE IF FirstName(old) # old /\ Contains(t, FirstName(old))
         THEN PyReplace(t, FirstName(old), FirstName(new))
    ELSE t

\* one iteration of the loop over scenes, when the first names can be computed
RenameInScene(scene, old, new) ==
    [scene EXCEPT !.dialogue_lines = RenameDialogue(scene.dialogue_lines, old, new),
                  !.subject_action = RenameInText(scene.subject_action, old, new),
                  !.environmental_context = RenameInText(scene.environmental_context, old, new)]

\* _propagate_character_name_change: the state it leaves and whether it raised.
\* It works in place: what it has rewritten when it raises stays rewritten.
PropagateCharacterNameChange(st, old, new) ==
    LET raises == FirstNameRaises(old) \/ FirstNameRaises(new)
        s1 == [st EXCEPT !.dialogue_scenes = RenameDialogue(st.dialogue_scenes, old, new)]
    IN  IF Len(st.scenes) > 0 /\ raises
        THEN [st |-> [s1 EXCEPT !.scenes[1].dialogue_lines =
                                    RenameDialogue(st.scenes[1].dialogue_lines, old, new)],
              raised |-> TRUE]
        ELSE LET s2 == [s1 EXCEPT !.scenes =
                            [i \in 1..Len(st.scenes) |-> RenameInScene(st.scenes[i], old, new)]]
             IN  IF Len(st.draft) > 0 /\ raises
                 THEN [st |-> s2, raised |-> TRUE]
                 ELSE [st |-> [s2 EXCEPT !.draft = RenameInText(st.draft, old, new)],
                       raised |-> FALSE]

\* one free-text field of the location path
RenameLocationInText(t, old, new) ==
    IF Contains(LowerStr(t), LowerStr(old)) THEN ReSubIgnoreCase(t, old, new) ELSE t

\* pattern.sub(new, s) raises re.error: the replacement template ends in a backslash
TemplateRaises(new) == new # <<>> /\ new[Len(new)] = "\\"

\* _propagate_location_name_change raises: the first text that holds old (so that
\* pattern.sub is reached) meets a template that raises, before anything is written
PropagateLocationRaises(st, old, new) ==
    /\ TemplateRaises(new)
    /\ \/ \E i \in 1..Len(st.scenes) :
              Contains(LowerStr(st.scenes[i].environmental_context), LowerStr(old))
       \/ Contains(LowerStr(st.draft), LowerStr(old))

\* _propagate_location_name_change
PropagateLocationNameChange(st, old, new) ==
    [st EXCEPT !.scenes = [i \in 1..Len(st.scenes) |->
                              [st.scenes[i] EXCEPT !.environmental_context =
                                  RenameLocationInText(st.scenes[i].environmental_context, old, new)]],
               !.draft = RenameLocationInText(st.draft, old, new)]

---------------------------------------------------------------------------
(* Entity patchers.  Each returns the state it leaves, whether rename       *)
(* propagation ran, and whether the except branch was taken.                *)

\* FindByName with the loop index read after the loop: a miss lands on the last entity
FindByNameLastOnMiss(coll, target) ==
    IF \E i \in 1..Len(coll) : LowerStr(coll[i].name) = LowerStr(target)
    THEN CHOOSE i \in 1..Len(coll) :
             /\ LowerStr(coll[i].name) = LowerStr(target)
             /\ \A j \in 1..(i - 1) : LowerStr(coll[j].name) # LowerStr(target)
    ELSE Len(coll)

\* index of the first entity whose name equals target ignoring case, 0 if none
FindByName(coll, target) ==
    IF \E i \in 1..Len(coll) : LowerStr(coll[i].name) = LowerStr(target)
    THEN CHOOSE i \in 1..Len(coll) :
             /\ LowerStr(coll[i].name) = LowerStr(target)
             /\ \A j \in 1..(i - 1) : LowerStr(coll[j].name) # LowerStr(target)
    ELSE 0

\* list.pop() without its index: the last entity goes
PopLast(coll, i) == SubSeq(coll, 1, Len(coll) - 1)

\* list.pop(i), i 1-based
Pop(coll, i) == SubSeq(coll, 1, i - 1) \o SubSeq(coll, i + 1, Len(coll))

Result(st, propagated, failed) == [st |-> st, propagated |-> propagated, failed |-> failed]

\* the names compared ignoring case: a change of letter case is no rename
RenameEventIgnoreCase(old_name, new_name) ==
    old_name # <<>> /\ LowerStr(old_name) # LowerStr(new_name)

\* if old_name and old_name != new_name
RenameEvent(old_name, new_name) == old_name # <<>> /\ old_name # new_name

\* _update_specific_character
UpdateSpecificCharacter(st, current, change) ==
    IF change.raised THEN Result([st EXCEPT !.characters = current], FALSE, TRUE)
    ELSE IF change.action = "add" THEN
        IF change.new_entity # None
        THEN Result([st EXCEPT !.characters = Append(current, change.new_entity[1])], FALSE, FALSE)
        ELSE Result([st EXCEPT !.characters = current], FALSE, FALSE)
    ELSE IF change.action = "modify" THEN
        IF Truthy(change.target_name) /\ change.new_entity # None
        THEN LET i == FindByName(current, change.target_name[1])
                 new_name == change.new_entity[1].name
             IN  IF i = 0 THEN Result([st EXCEPT !.characters = current], FALSE, FALSE)
                 ELSE LET old_name == current[i].name
                          updated == [current EXCEPT ![i] = change.new_entity[1]]
                      IN  IF RenameEvent(old_name, new_name)
                          THEN LET p == PropagateCharacterNameChange(st, old_name, new_name)
                               IN  IF p.raised
                                   THEN Result([p.st EXCEPT !.characters = current], TRUE, TRUE)
                                   ELSE Result([p.st EXCEPT !.characters = updated], TRUE, FALSE)
                          ELSE Result([st EXCEPT !.characters = updated], FALSE, FALSE)
        ELSE Result([st EXCEPT !.characters = current], FALSE, FALSE)
    ELSE \* remove
        IF Truthy(change.target_name)
        THEN LET i == FindByName(current, change.target_name[1])
             IN  IF i = 0 THEN Result([st EXCEPT !.characters = current], FALSE, FALSE)
                 ELSE Result([st EXCEPT !.characters = Pop(current, i)], FALSE, FALSE)
        ELSE Result([st EXCEPT !.characters = current], FALSE, FALSE)

\* _update_specific_location
UpdateSpecificLocation(st, current, change) ==
    IF change.raised THEN Result([st EXCEPT !.locations = current], FALSE, TRUE)
    ELSE IF change.action = "add" THEN
        IF change.new_entity # None
        THEN Result([st EXCEPT !.locations = Append(current, change.new_entity[1])], FALSE, FALSE)
        ELSE Result([st EXCEPT !.locations = current], FALSE, FALSE)
    ELSE IF change.action = "modify" THEN
        IF Truthy(change.target_name) /\ change.new_entity # None
        THEN LET i == FindByName(current, change.target_name[1])
                 new_name == change.new_entity[1].name
             IN  IF i = 0 THEN Result([st EXCEPT !.locations = current], FALSE, FALSE)
                 ELSE LET old_name == current[i].name
                          updated == [current EXCEPT ![i] = change.new_entity[1]]
                      IN  IF RenameEvent(old_name, new_name)
                          THEN IF PropagateLocationRaises(st, old_name, new_name)
                               THEN Result([st EXCEPT !.locations = current], TRUE, TRUE)
                               ELSE Result([PropagateLocationNameChange(st, old_name, new_name)
                                               EXCEPT !.locations = updated], TRUE, FALSE)
                          ELSE Result([st EXCEPT !.locations = updated], FALSE, FALSE)
        ELSE Result([st EXCEPT !.locations = current], FALSE, FALSE)
    ELSE \* remove
        IF Truthy(change.target_name)
        THEN LET i == FindByName(current, change.target_name[1])
             IN  IF i = 0 THEN Result([st EXCEPT !.locations = current], FALSE, FALSE)
                 ELSE Result([st EXCEPT !.locations = Pop(current, i)], FALSE, FALSE)
        ELSE Result([st EXCEPT !.locations = current], FALSE, FALSE)

\* the character loop without its break: the last line of the character is taken
FindByCharacterLast(coll, target) ==
    IF \E k \in 1..Len(coll) : LowerStr(coll[k].character_name) = LowerStr(target)
    THEN CHOOSE k \in 1..Len(coll) :
             /\ LowerStr(coll[k].character_name) = LowerStr(target)
             /\ \A j \in (k + 1)..Len(coll) :
                    LowerStr(coll[j].character_name) # LowerStr(target)
    ELSE 0

\* index of the first dialogue line whose character_name equals target ignoring
\* case, 0 if none
FindByCharacter(coll, target) ==
    IF \E k \in 1..Len(coll) : LowerStr(coll[k].character_name) = LowerStr(target)
    THEN CHOOSE k \in 1..Len(coll) :
             /\ LowerStr(coll[k].character_name) = LowerStr(target)
             /\ \A j \in 1..(k - 1) :
                    LowerStr(coll[j].character_name) # LowerStr(target)
    ELSE 0

\* the line text written to every entry of the same scene as entry i
SetLineOfScene(coll, i, line) ==
    [j \in 1..Len(coll) |->
        IF coll[j].scene_number = coll[i].scene_number THEN [coll[j] EXCEPT !.line = line]
        ELSE coll[j]]

\* updated_dialogue[i]['line'] = modified_line, i 1-based
SetLine(coll, i, line) == [coll EXCEPT ![i].line = line]

\* _update_specific_dialogue
UpdateSpecificDialogue(st, current, change) ==
    IF change.raised THEN Result([st EXCEPT !.dialogue_scenes = current], FALSE, TRUE)
    ELSE IF change.action = "add" THEN
        IF change.new_dialogue # None
        THEN LET new_line == [character_name |-> change.new_dialogue[1].character_name,
                              scene_number |-> IF change.scene_number # None /\ change.scene_number[1] # 0
                                               THEN change.scene_number[1]
                                               ELSE Len(current) + 1,
                              line |-> change.new_dialogue[1].line]
             IN  Result([st EXCEPT !.dialogue_scenes = Append(current, new_line)], FALSE, FALSE)
        ELSE Result([st EXCEPT !.dialogue_scenes = current], FALSE, FALSE)
    ELSE LET ident == change.identification
             by_index == ident # None /\ ident[1].target_index # None /\ ident[1].target_index[1] # 0
             by_character == ident # None /\ ~by_index /\ Truthy(ident[1].target_character)
             i == IF by_index
                  THEN IF ident[1].target_index[1] \in 1..Len(current)
                       THEN ident[1].target_index[1] ELSE 0
                  ELSE IF by_character
                  THEN FindByCharacter(current, ident[1].target_character[1])
                  ELSE 0
         IN  IF change.action = "modify" THEN
                 IF ident # None /\ change.modified_line # None /\ change.modified_line[1] # "" /\ i # 0
                 THEN Result([st EXCEPT !.dialogue_scenes =
                                 SetLine(current, i, change.modified_line[1])], FALSE, FALSE)
                 ELSE Result([st EXCEPT !.dialogue_scenes = current], FALSE, FALSE)
             ELSE \* remove
                 IF ident # None /\ i # 0
                 THEN Result([st EXCEPT !.dialogue_scenes = Pop(current, i)], FALSE, FALSE)
                 ELSE Result([st EXCEPT !.dialogue_scenes = current], FALSE, FALSE)

\* index of the first scene whose scene_number equals n, 0 if none
FindScene(scenes, n) ==
    IF \E i \in 1..Len(scenes) : scenes[i].scene_number = n
    THEN CHOOSE i \in 1..Len(scenes) :
             /\ scenes[i].scene_number = n
             /\ \A j \in 1..(i - 1) : scenes[j].scene_number # n
    ELSE 0

\* the new scenes of an insert_between: new_scenes when it is non-empty, else [new_scene]
ScenesToInsert(change) ==
    IF Len(change.new_scenes) > 0 THEN change.new_scenes
    ELSE IF change.new_scene # None THEN <<change.new_scene[1]>>
    ELSE <<>>

\* InsertBetween with the later scenes moved up by one whatever the number inserted
InsertBetweenShiftOne(current, insert_after, to_insert) ==
    LET found == FindScene(current, insert_after)
        insert_index == IF found # 0 THEN found ELSE Len(current)
        numbered == [i \in 1..Len(to_insert) |->
                        [to_insert[i] EXCEPT !.scene_number = insert_after + i]]
        shifted == [i \in 1..(Len(current) - insert_index) |->
                        [current[insert_index + i] EXCEPT !.scene_number = @ + 1]]
    IN  SubSeq(current, 1, insert_index) \o numbered \o shifted

\* the insertion and renumbering of an insert_between with scenes to insert
InsertBetween(current, insert_after, to_insert) ==
    LET found == FindScene(current, insert_after)
        insert_index == IF found # 0 THEN found ELSE Len(current)   \* scenes kept before the new ones
        numbered == [i \in 1..Len(to_insert) |->
                        [to_insert[i] EXCEPT !.scene_number = insert_after + i]]
        shifted == [i \in 1..(Len(current) - insert_index) |->
                        [current[insert_index + i] EXCEPT
                            !.scene_number = @ + Len(to_insert)]]
    IN  SubSeq(current, 1, insert_index) \o numbered \o shifted

\* the scene at position i removed and the later scenes moved down by one number
RemoveSceneRenumber(current, i) ==
    SubSeq(current, 1, i - 1)
        \o [j \in 1..(Len(current) - i) |->
               [current[i + j] EXCEPT !.scene_number = @ - 1]]

\* updated_scenes.pop(i), i 1-based: the later scenes keep their numbers
RemoveScene(current, i) == Pop(current, i)

\* _update_specific_scene
UpdateSpecificScene(st, current, change) ==
    IF change.raised THEN Result([st EXCEPT !.scenes = current], FALSE, TRUE)
    ELSE IF change.action = "add" THEN
        IF change.new_scene # None
        THEN Result([st EXCEPT !.scenes = Append(current, change.new_scene[1])], FALSE, FALSE)
        ELSE Result([st EXCEPT !.scenes = current], FALSE, FALSE)
    ELSE IF change.action = "insert_between" THEN
        IF change.insert_after_scene # None /\ Len(ScenesToInsert(change)) > 0
        THEN Result([st EXCEPT !.scenes = InsertBetween(current, change.insert_after_scene[1],
                                                        ScenesToInsert(change))], FALSE, FALSE)
        ELSE Result([st EXCEPT !.scenes = current], FALSE, FALSE)
    ELSE LET hit == IF change.target_scene_number # None /\ change.target_scene_number[1] # 0
                    THEN FindScene(current, change.target_scene_number[1]) ELSE 0
         IN  IF change.action = "modify" THEN
                 IF change.new_scene # None /\ hit # 0
                 THEN Result([st EXCEPT !.scenes = [current EXCEPT ![hit] = change.new_scene[1]]],
                             FALSE, FALSE)
                 ELSE Result([st EXCEPT !.scenes = current], FALSE, FALSE)
             ELSE \* remove
                 IF hit # 0
                 THEN Result([st EXCEPT !.scenes = RemoveScene(current, hit)], FALSE, FALSE)
                 ELSE Result([st EXCEPT !.scenes = current], FALSE, FALSE)

---------------------------------------------------------------------------
(* update_component *)

Components == {"draft", "characters", "dialogue", "locations", "visual_lookbook", "scenes"}

\* component_map: the feedback key of a component
FeedbackKey(c) == c \o "_feedback"

\* increase_keywords
IncreaseKeywords ==
    { <<"a", "d", "d", " ", "s", "c", "e", "n", "e">>,
      <<"a", "d", "d", " ", "m", "o", "r", "e", " ", "s", "c", "e", "n", "e">>,
      <<"n", "e", "e", "d", " ", "m", "o", "r", "e", " ", "s", "c", "e", "n", "e">>,
      <<"c", "r", "e", "a", "t", "e", " ", "m", "o", "r", "e", " ", "s", "c", "e", "n", "e">>,
      <<"i", "n", "s", "e", "r", "t", " ", "s", "c", "e", "n", "e">>,
      <<"a", "d", "d", "i", "t", "i", "o", "n", "a", "l", " ", "s", "c", "e", "n", "e">>,
      <<"m", "o", "r", "e", " ", "s", "c", "e", "n", "e", "s">>,
      <<"e", "x", "p", "a", "n", "d", " ", "s", "c", "e", "n", "e", "s">>,
      <<"i", "n", "c", "r", "e", "a", "s", "e", " ", "s", "c", "e", "n", "e", " ", "c", "o", "u", "n", "t">>,
      <<"a", "d", "d", " ", "a", "n", "o", "t", "h", "e", "r", " ", "s", "c", "e", "n", "e">>,
      <<"a", "d", "d", " ", "n", "e", "w", " ", "s", "c", "e", "n", "e">> }

DefaultSceneCount == 12

\* allow_increase = any(keyword in feedback_lower for keyword in increase_keywords)
AllowIncrease(feedback) == \E kw \in IncreaseKeywords : Contains(LowerStr(feedback), kw)

\* UpdateDraftOnly as self.state.update(result): every key the node returns is taken
UpdateDraftAll(st, change) ==
    IF change.raised THEN [st |-> st, propagated |-> FALSE, failed |-> TRUE]
    ELSE [st |-> [st EXCEPT !.draft = IF change.draft # None THEN change.draft[1] ELSE @,
                            !.title = IF change.title # None THEN change.title[1] ELSE @,
                            !.characters = IF change.characters # None
                                           THEN change.characters[1] ELSE @],
          propagated |-> FALSE, failed |-> FALSE]

\* the draft branch: only result['draft'] is taken from what the node returns
UpdateDraftOnly(st, change) ==
    IF ~change.raised /\ change.draft # None
    THEN Result([st EXCEPT !.draft = change.draft[1]], FALSE, FALSE)
    ELSE Result(st, FALSE, change.raised)

\* the visual_lookbook branch: only result['visual_lookbook'] is taken
UpdateLookbookOnly(st, change) ==
    IF ~change.raised /\ change.visual_lookbook # None
    THEN Result([st EXCEPT !.visual_lookbook = change.visual_lookbook[1]], FALSE, FALSE)
    ELSE Result(st, FALSE, change.raised)

\* the scenes branch up to the patch: the authorization flag and number_of_scenes
SceneGate(st, feedback) ==
    [st EXCEPT !.allow_scene_increase = Some(AllowIncrease(feedback)),
               !.number_of_scenes =
                   Some(IF Len(st.scenes) > 0 THEN Len(st.scenes)
                        ELSE IF st.number_of_scenes # None THEN st.number_of_scenes[1]
                        ELSE DefaultSceneCount)]

\* the scenes branch with the flag enforced: a proposal that would add scenes is
\* dropped unless the feedback asked for more scenes
UpdateScenesBranchEnforced(s0, original_scenes, feedback, change) ==
    IF ~AllowIncrease(feedback) /\ ~change.raised /\ change.action \in {"add", "insert_between"}
    THEN Result([SceneGate(s0, feedback) EXCEPT !.scenes = original_scenes], FALSE, FALSE)
    ELSE UpdateSpecificScene(SceneGate(s0, feedback), original_scenes, change)

\* the scenes branch of update_component: the flag is set, then the patcher runs
UpdateScenesBranch(s0, original_scenes, feedback, change) ==
    UpdateSpecificScene(SceneGate(s0, feedback), original_scenes, change)

\* the components patched by an _update_specific_* method
SurgicalComponents == {"locations", "characters", "dialogue", "scenes"}

\* the Proposer could not even be built: LLMService.create_structured_llm raises
\* (no API key), which happens before the patcher's try block
Escapes(change) == "escapes" \in DOMAIN change

\* the feedback stored under the name's key before the name is looked up
UnknownComponentKeyStored(st, c) ==
    Result([st EXCEPT !.feedback_keys = @ \cup {FeedbackKey(c)}], FALSE, FALSE)

\* if component_name not in component_map: return self.state
UnknownComponent(st, c) == Result(st, FALSE, FALSE)

\* update_component(component_name, feedback), `change` being what the Proposer
\* (or the generation node) hands back during the call; an exception raised
\* outside every try block leaves the method at once, with no clean-up
UpdateComponent(st, c, feedback, change) ==
    IF c \notin Components THEN UnknownComponent(st, c)
    ELSE IF c \in SurgicalComponents /\ Escapes(change)
    THEN LET s0 == [st EXCEPT !.feedback_keys = @ \cup {FeedbackKey(c)}]
         IN  Result(IF c = "scenes" THEN SceneGate(s0, feedback) ELSE s0, FALSE, TRUE)
    ELSE LET s0 == [st EXCEPT !.feedback_keys = @ \cup {FeedbackKey(c)}]
             r == CASE c = "draft" -> UpdateDraftOnly(s0, change)
                    [] c = "locations" -> UpdateSpecificLocation(s0, st.locations, change)
                    [] c = "characters" -> UpdateSpecificCharacter(s0, st.characters, change)
                    [] c = "dialogue" -> UpdateSpecificDialogue(s0, st.dialogue_scenes, change)
                    [] c = "scenes" -> UpdateScenesBranch(s0, st.scenes, feedback, change)
                    [] c = "visual_lookbook" -> UpdateLookbookOnly(s0, change)
         IN  [r EXCEPT !.st = [r.st EXCEPT !.feedback_keys = @ \ {FeedbackKey(c)},
                                          !.allow_scene_increase =
                                              IF c = "scenes" THEN None ELSE @]]

---------------------------------------------------------------------------
(* The loaded document: update_state_from_user_view *)

Character(name, persona) == [name |-> name, persona_type |-> persona]
Location(name, description) == [name |-> name, description |-> description]
DialogueLine(name, n, line) == [character_name |-> name, scene_number |-> n, line |-> line]
SceneLine(name, line) == [character_name |-> name, line |-> line]
Scene(n, env, action, lines) ==
    [scene_number |-> n, environmental_context |-> env, subject_action |-> action,
     shot_type |-> "wide", dialogue_lines |-> lines]

\* the i-th scene of the loaded user_view: numbered i, in order
LoadedScene(i) ==
    CASE i % 3 = 1 ->
            Scene(i, <<"K", " ", "k", "q">>, <<"E", " ", "C", "x", "E", " ", "C">>,
                  <<SceneLine(ElenaCross, "s1"), SceneLine(elenacross, "s2")>>)
      [] i % 3 = 2 ->
            Scene(i, <<"E", "x", "E">>, <<"B">>, <<SceneLine(Bob, "s3")>>)
      [] OTHER ->
            Scene(i, <<>>, <<"E", " ", "C", "x", "E">>, <<SceneLine(ElenaCross, "s4")>>)

LoadedDrafts ==
    { <<"E", " ", "C", "x", "E", " ", "C", "x", "K">>,
      <<"E", "x", "E", "x", "k", "K">> }

LoadedDialogues ==
    { <<DialogueLine(ElenaCross, 1, "l1"), DialogueLine(Bob, 1, "l2"),
        DialogueLine(elenacross, 2, "l3"), DialogueLine(ElenaCross, 2, "l4"),
        DialogueLine(Bob, 3, "l5")>> }

\* self.state after update_state_from_user_view(user_view_data)
LoadedState(n, draft, dialogue) ==
    [title |-> "title", genre |-> "noir", tone |-> "dark",
     draft |-> draft,
     visual_lookbook |-> "lookbook",
     characters |-> <<Character(ElenaCross, "hero"), Character(Bob, "ally")>>,
     locations |-> <<Location(Cafe, "d1"), Location(Park, "d2")>>,
     dialogue_scenes |-> dialogue,
     scenes |-> [i \in 1..n |-> LoadedScene(i)],
     number_of_scenes |-> IF n > 0 THEN Some(n) ELSE None,
     allow_scene_increase |-> None,
     feedback_keys |-> {}]

NoCall == [component |-> "none"]
OrchIdle == [pc |-> "idle"]

\* the saga components as update_state_from_saga leaves them: a missing file leaves None
SagaComponents == {"concept", "world_lore", "factions", "characters", "plot_arcs", "questlines"}
LoadedSaga == [c \in SagaComponents |-> IF c = "questlines" THEN None ELSE Some(0)]

Init ==
    /\ \E n \in 0..MaxInitScenes, d \in LoadedDrafts, dl \in LoadedDialogues :
           state = LoadedState(n, d, dl)
    /\ pre = state
    /\ call = NoCall
    /\ revisions = 0
    /\ orch = OrchIdle
    /\ saga = LoadedSaga

---------------------------------------------------------------------------
(* What the Proposer and the generation nodes can hand back *)

Raise(change) == [change EXCEPT !.raised = TRUE]

\* create_structured_llm raising while the Proposer of this kind of change is built
Escape(change) == [change EXCEPT !.raised = TRUE] @@ [escapes |-> TRUE]

EntityChange(action, target, entity) ==
    [raised |-> FALSE, action |-> action, target_name |-> target, new_entity |-> entity]

CharacterTargets == {None, Some(elenacross), Some(Bob), Some(MaraCross)}
CharacterPayloads ==
    {None, Some(Character(MaraCross, "villain")), Some(Character(ElenaCross, "villain")),
     Some(Character(elenacross, "hero")), Some(Character(Blank, "ghost"))}

CharacterChanges ==
    {EntityChange("add", None, e) : e \in CharacterPayloads}
    \cup {EntityChange("modify", t, e) : t \in CharacterTargets, e \in CharacterPayloads}
    \cup {EntityChange("remove", t, None) : t \in CharacterTargets}
    \cup {Raise(EntityChange("modify", None, None)), Escape(EntityChange("modify", None, None))}

LocationTargets == {None, Some(cafe), Some(Park), Some(<<"x">>)}
LocationPayloads ==
    {None, Some(Location(Park, "d3")), Some(Location(Cafe, "d3")),
     Some(Location(<<"P", "k">>, "d3")), Some(Location(Backslash, "d3"))}

LocationChanges ==
    {EntityChange("add", None, e) : e \in LocationPayloads}
    \cup {EntityChange("modify", t, e) : t \in LocationTargets, e \in LocationPayloads}
    \cup {EntityChange("remove", t, None) : t \in LocationTargets}
    \cup {Raise(EntityChange("modify", None, None)), Escape(EntityChange("modify", None, None))}

Identification(index, character) == [target_index |-> index, target_character |-> character]

DialogueChange(action, ident, new_dialogue, modified_line, scene_number) ==
    [raised |-> FALSE, action |-> action, identification |-> ident,
     new_dialogue |-> new_dialogue, modified_line |-> modified_line,
     scene_number |-> scene_number]

DialogueIdentifications ==
    {None, Some(Identification(None, None)), Some(Identification(Some(3), Some(Bob))),
     Some(Identification(Some(0), Some(<<"b">>))), Some(Identification(Some(9), Some(Bob))),
     Some(Identification(None, Some(elenacross))), Some(Identification(None, Some(MaraCross)))}

DialogueChanges ==
    {DialogueChange("add", None, d, None, n) :
        d \in {None, Some(SceneLine(Bob, "new"))}, n \in {None, Some(7)}}
    \cup {DialogueChange("add", None, Some(SceneLine(MaraCross, "new")), None, Some(0))}
    \cup {DialogueChange("modify", i, None, Some("new"), None) : i \in DialogueIdentifications}
    \cup {DialogueChange("modify", Some(Identification(Some(3), None)), None, m, None) :
            m \in {None, Some("")}}
    \cup {DialogueChange("remove", i, None, None, None) : i \in DialogueIdentifications}
    \cup {Raise(DialogueChange("modify", None, None, None, None)),
          Escape(DialogueChange("modify", None, None, None, None))}

SceneChange(action, target, after, num, new_scenes, new_scene) ==
    [raised |-> FALSE, action |-> action, target_scene_number |-> target,
     insert_after_scene |-> after, num_scenes_to_insert |-> num,
     new_scenes |-> new_scenes, new_scene |-> new_scene]

\* a scene as the Proposer writes it, with the scene number it chose
ProposedScene(n) == Scene(n, <<"P">>, <<"M">>, <<SceneLine(Bob, "s9")>>)

SceneNumbers == 0..MaxInitScenes

SceneChanges ==
    {SceneChange("add", None, None, Some(1), <<>>, s) :
        s \in {None, Some(ProposedScene(1)), Some(ProposedScene(MaxInitScenes + 1))}}
    \cup {SceneChange("insert_between", None, a, Some(p[1]), p[2], p[3]) :
            a \in {None} \cup {Some(n) : n \in SceneNumbers},
            p \in {<<1, <<>>, None>>,
                   <<2, <<>>, Some(ProposedScene(1))>>,
                   <<1, <<ProposedScene(1)>>, None>>,
                   <<1, <<ProposedScene(1), ProposedScene(1)>>, Some(ProposedScene(1))>>}}
    \cup {SceneChange("modify", t, None, Some(1), <<>>, s) :
            t \in {None} \cup {Some(n) : n \in SceneNumbers},
            s \in {None, Some(ProposedScene(1)), Some(ProposedScene(2))}}
    \cup {SceneChange("remove", t, None, Some(1), <<>>, None) :
            t \in {None} \cup {Some(n) : n \in SceneNumbers}}
    \cup {Raise(SceneChange("modify", None, None, Some(1), <<>>, None)),
          Escape(SceneChange("modify", None, None, Some(1), <<>>, None))}

\* the dictionary a generation node returns: the keys it may carry
NodeResult(draft, lookbook, title, characters) ==
    [raised |-> FALSE, draft |-> draft, visual_lookbook |-> lookbook,
     title |-> title, characters |-> characters]

NodeResults ==
    {NodeResult(d, v, None, None) :
        d \in {None, Some(<<"n", "e", "w">>)}, v \in {None, Some("lookbook2")}}
    \cup {NodeResult(Some(<<"n", "e", "w">>), Some("lookbook2"), Some("title2"), Some(<<>>))}
    \cup {Raise(NodeResult(None, None, None, None))}

FeedbackPlain == <<"f", "i", "x">>
FeedbackAddScene == <<"A", "d", "d", " ", "s", "c", "e", "n", "e", "s">>
Feedbacks == {FeedbackPlain, FeedbackAddScene}

---------------------------------------------------------------------------
(* One update_component call *)

Revise(c, feedback, change) ==
    LET r == UpdateComponent(state, c, feedback, change)
    IN  /\ revisions < MaxRevisions
        /\ state' = r.st
        /\ pre' = state
        /\ call' = [component |-> c, feedback |-> feedback, change |-> change,
                    propagated |-> r.propagated, failed |-> r.failed,
                    escaped |-> c \in SurgicalComponents /\ Escapes(change)]
        /\ revisions' = revisions + 1
        /\ UNCHANGED <<orch, saga>>

UpdateDraft == \E ch \in NodeResults : Revise("draft", FeedbackPlain, ch)
UpdateCharacters == \E ch \in CharacterChanges : Revise("characters", FeedbackPlain, ch)
UpdateLocations == \E ch \in LocationChanges : Revise("locations", FeedbackPlain, ch)
UpdateDialogue == \E ch \in DialogueChanges : Revise("dialogue", FeedbackPlain, ch)
UpdateScenes == \E fb \in Feedbacks, ch \in SceneChanges : Revise("scenes", fb, ch)
UpdateVisualLookbook == \E ch \in NodeResults : Revise("visual_lookbook", FeedbackPlain, ch)
UpdateUnknown == \E ch \in NodeResults : Revise("plot_arcs", FeedbackPlain, ch)

Next ==
    \/ UpdateDraft
    \/ UpdateCharacters
    \/ UpdateLocations
    \/ UpdateDialogue
    \/ UpdateScenes
    \/ UpdateVisualLookbook
    \/ UpdateUnknown

Spec == Init /\ [][Next]_vars

---------------------------------------------------------------------------
(* The classifiers' keyword fallbacks *)

\* component_keywords of the screenplay identify_components_with_llm, in dict order
ComponentKeywords ==
    <<
      [component |-> "characters", keywords |-> <<
          <<"c", "h", "a", "r", "a", "c", "t", "e", "r">>,
          <<"p", "r", "o", "t", "a", "g", "o", "n", "i", "s", "t">>,
          <<"p", "e", "r", "s", "o", "n">>,
          <<"p", "e", "o", "p", "l", "e">>,
          <<"c", "a", "s", "t">>>>],
      [component |-> "draft", keywords |-> <<
          <<"d", "r", "a", "f", "t">>,
          <<"s", "t", "o", "r", "y">>,
          <<"n", "a", "r", "r", "a", "t", "i", "v", "e">>,
          <<"p", "l", "o", "t">>,
          <<"s", "t", "o", "r", "y", "l", "i", "n", "e">>>>],
      [component |-> "dialogue", keywords |-> <<
          <<"d", "i", "a", "l", "o", "g", "u", "e">>,
          <<"d", "i", "a", "l", "o", "g">>,
          <<"c", "o", "n", "v", "e", "r", "s", "a", "t", "i", "o", "n">>,
          <<"l", "i", "n", "e", "s">>,
          <<"s", "p", "e", "e", "c", "h">>>>],
      [component |-> "locations", keywords |-> <<
          <<"l", "o", "c", "a", "t", "i", "o", "n">>,
          <<"p", "l", "a", "c", "e">>,
          <<"s", "e", "t", "t", "i", "n", "g">>,
          <<"s", "c", "e", "n", "e", " ", "l", "o", "c", "a", "t", "i", "o", "n">>,
          <<"w", "h", "e", "r", "e">>>>],
      [component |-> "visual_lookbook", keywords |-> <<
          <<"v", "i", "s", "u", "a", "l">>,
          <<"s", "t", "y", "l", "e">>,
          <<"l", "o", "o", "k">>,
          <<"a", "e", "s", "t", "h", "e", "t", "i", "c">>,
          <<"c", "o", "l", "o", "r">>,
          <<"c", "a", "m", "e", "r", "a">>>>],
      [component |-> "scenes", keywords |-> <<
          <<"s", "c", "e", "n", "e">>,
          <<"s", "h", "o", "t">>,
          <<"s", "e", "q", "u", "e", "n", "c", "e">>,
          <<"s", "c", "e", "n", "e", " ", "b", "r", "e", "a", "k", "d", "o", "w", "n">>>>]
    >>

\* component_keywords of the saga identify_components_with_llm, in dict order
SagaComponentKeywords ==
    <<
      [component |-> "concept", keywords |-> <<
          <<"c", "o", "n", "c", "e", "p", "t">>,
          <<"g", "a", "m", "e">>,
          <<"c", "o", "r", "e", " ", "l", "o", "o", "p">>,
          <<"m", "e", "c", "h", "a", "n", "i", "c", "s">>,
          <<"u", "s", "p">>,
          <<"g", "e", "n", "r", "e">>>>],
      [component |-> "world_lore", keywords |-> <<
          <<"w", "o", "r", "l", "d">>,
          <<"l", "o", "r", "e">>,
          <<"h", "i", "s", "t", "o", "r", "y">>,
          <<"c", "u", "l", "t", "u", "r", "e">>,
          <<"s", "e", "t", "t", "i", "n", "g">>,
          <<"t", "h", "e", "m", "e">>>>],
      [component |-> "factions", keywords |-> <<
          <<"f", "a", "c", "t", "i", "o", "n">>,
          <<"g", "r", "o", "u", "p">>,
          <<"o", "r", "g", "a", "n", "i", "z", "a", "t", "i", "o", "n">>,
          <<"g", "u", "i", "l", "d">>,
          <<"c", "l", "a", "n">>>>],
      [component |-> "characters", keywords |-> <<
          <<"c", "h", "a", "r", "a", "c", "t", "e", "r">>,
          <<"p", "e", "r", "s", "o", "n">>,
          <<"p", "r", "o", "t", "a", "g", "o", "n", "i", "s", "t">>,
          <<"n", "p", "c">>,
          <<"h", "e", "r", "o">>>>],
      [component |-> "plot_arcs", keywords |-> <<
          <<"p", "l", "o", "t">>,
          <<"a", "r", "c">>,
          <<"s", "t", "o", "r", "y">>,
          <<"n", "a", "r", "r", "a", "t", "i", "v", "e">>,
          <<"c", "a", "m", "p", "a", "i", "g", "n">>>>],
      [component |-> "questlines", keywords |-> <<
          <<"q", "u", "e", "s", "t">>,
          <<"m", "i", "s", "s", "i", "o", "n">>,
          <<"t", "a", "s", "k">>,
          <<"o", "b", "j", "e", "c", "t", "i", "v", "e">>>>]
    >>

\* any(keyword in feedback_lower for keyword in keywords)
AnyKeywordIn(keywords, feedback_lower) ==
    \E k \in 1..Len(keywords) : Contains(feedback_lower, keywords[k])

\* the fallback loop from table row i on: the component of the first row one of
\* whose keywords is in the lowercased feedback, None when the loop ends without one
RECURSIVE FirstWithKeyword(_, _, _)
FirstWithKeyword(keywords_table, feedback_lower, i) ==
    IF i > Len(keywords_table) THEN None
    ELSE IF AnyKeywordIn(keywords_table[i].keywords, feedback_lower)
    THEN Some(keywords_table[i].component)
    ELSE FirstWithKeyword(keywords_table, feedback_lower, i + 1)

\* the fallback loop left without its break: the last row with a keyword wins
KeywordFallbackLastWins(keywords_table, default, feedback) ==
    LET rows == {j \in 1..Len(keywords_table) :
                    AnyKeywordIn(keywords_table[j].keywords, LowerStr(feedback))}
    IN  [primary |-> IF rows = {} THEN default
                     ELSE keywords_table[CHOOSE j \in rows : \A h \in rows : h <= j].component,
         dependents |-> <<>>]

\* the except branch of identify_components_with_llm: the ComponentIdentification
\* it returns (primary component and dependent components)
KeywordFallback(keywords_table, default, feedback) ==
    LET primary == FirstWithKeyword(keywords_table, LowerStr(feedback), 1)
    IN  [primary |-> IF primary # None THEN primary[1] ELSE default, dependents |-> <<>>]

\* the keyword lists of ReactOrchestratorAgent._fallback_analysis
ReactLocationKeywords ==
    <<<<"l", "o", "c", "a", "t", "i", "o", "n">>,
      <<"p", "l", "a", "c", "e">>,
      <<"s", "e", "t", "t", "i", "n", "g">>,
      <<"c", "a", "f", "e">>,
      <<"p", "a", "r", "k">>,
      <<"s", "h", "o", "p">>,
      <<"c", "h", "a", "n", "g", "e", " ", "t", "h", "e">>>>
ReactCharacterKeywords ==
    <<<<"c", "h", "a", "r", "a", "c", "t", "e", "r">>, <<"p", "e", "r", "s", "o", "n">>, <<"a", "d", "d">>, <<"n", "a", "m", "e", "d">>>>

\* ReactOrchestratorAgent._fallback_analysis
ReactFallbackAnalysis(feedback) ==
    [primary |-> IF AnyKeywordIn(ReactLocationKeywords, LowerStr(feedback)) THEN "locations"
                 ELSE IF AnyKeywordIn(ReactCharacterKeywords, LowerStr(feedback)) THEN "characters"
                 ELSE "draft",
     dependents |-> <<>>]

\* feedback sentences handed to the classifiers
CafeToPark == <<"c", "h", "a", "n", "g", "e", " ", "t", "h", "e", " ", "c", "a", "f", "e", " ", "t", "o", " ", "a", " ", "p", "a", "r", "k">>
ClassifierFeedbacks ==
    {CafeToPark,
     <<"A", "d", "d", " ", "a", " ", "C", "h", "a", "r", "a", "c", "t", "e", "r">>,
     <<"t", "h", "e", " ", "s", "t", "o", "r", "y", " ", "p", "l", "a", "c", "e">>,
     <<"s", "c", "e", "n", "e", " ", "l", "o", "c", "a", "t", "i", "o", "n">>,
     <<"h", "e", "r", "o", " ", "q", "u", "e", "s", "t">>,
     FeedbackPlain}

---------------------------------------------------------------------------
(* orchestrate_revision, screenplay and saga *)

\* the saga update_component: the node's result is merged, then every component
\* other than the target that held a value gets that value back
SagaUpdateComponent(sg, c, result) ==
    IF c \notin SagaComponents \/ result.raised THEN sg
    ELSE [k \in SagaComponents |->
             IF k # c /\ sg[k] # None THEN sg[k]
             ELSE IF k \in result.keys THEN Some(result.value) ELSE sg[k]]

\* what a saga generation node returns: the keys of its dictionary, one value for all
SagaResults ==
    {[raised |-> FALSE, keys |-> {"characters"}, value |-> 1],
     [raised |-> FALSE, keys |-> SagaComponents, value |-> 1],
     [raised |-> TRUE, keys |-> {}, value |-> 0]}

\* the ComponentIdentification of the classifier (ReAct decision or direct LLM)
Classification(primary, dependents) == [primary |-> primary, dependents |-> dependents]
Classifications ==
    {Classification("characters", <<"dialogue">>), Classification("locations", <<>>),
     Classification("plot_arcs", <<"characters">>)}

\* what the external classifier does when invoked: it answers or it raises
ClassifierRaised == [raised |-> TRUE]
ClassifierOutcomes ==
    {ClassifierRaised} \cup {[raised |-> FALSE, id |-> id] : id \in Classifications}

\* identify_components_with_llm of either variant: the classifier's answer, or the
\* keyword fallback when the invocation raises
IdentifyComponentsWithLlm(keywords_table, default, feedback, outcome) ==
    IF outcome.raised
    THEN KeywordFallback(keywords_table, default, feedback) @@ [via |-> "keyword_fallback"]
    ELSE outcome.id @@ [via |-> "classifier"]

\* ReactOrchestratorAgent.analyze_feedback as orchestrate_revision reads its decision
AnalyzeFeedback(feedback, outcome) ==
    IF outcome.raised
    THEN ReactFallbackAnalysis(feedback) @@ [via |-> "react_fallback"]
    ELSE outcome.id @@ [via |-> "classifier"]

\* step 2 of the screenplay orchestrate_revision in targeted mode: the routing path
\* is the agent's use_react
Route(use_react, feedback, outcome) ==
    IF use_react THEN AnalyzeFeedback(feedback, outcome)
    ELSE IdentifyComponentsWithLlm(ComponentKeywords, "draft", feedback, outcome)
\* outside targeted mode, or without feedback, step 2 identifies nothing
NotRouted == [primary |-> "none", dependents |-> <<>>, via |-> "none"]
Routes(targeted, feedback) ==
    IF targeted /\ feedback # <<>>
    THEN {Route(use_react, feedback, outcome) :
             use_react \in BOOLEAN, outcome \in ClassifierOutcomes}
    ELSE {NotRouted}

\* the saga orchestrate_revision always calls its own identify_components_with_llm
SagaRoutes(targeted, feedback) ==
    IF targeted /\ feedback # <<>>
    THEN {IdentifyComponentsWithLlm(SagaComponentKeywords, "concept", feedback, outcome) :
             outcome \in ClassifierOutcomes}
    ELSE {NotRouted}

\* one entry of the analysis that needs an update, and the whole-document analysis:
\* the entries in priority order, or the call raising
AnalysisEntry(c, feedback) == [component_name |-> c, feedback |-> feedback]
AnalysisRaised == [raised |-> TRUE, entries |-> <<>>]
Analyses ==
    {AnalysisRaised}
    \cup {[raised |-> FALSE, entries |-> e] :
            e \in {<<>>,
                   <<AnalysisEntry("dialogue", FeedbackPlain)>>,
                   <<AnalysisEntry("characters", FeedbackPlain)>>,
                   <<AnalysisEntry("scenes", <<>>)>>,
                   <<AnalysisEntry("characters", FeedbackPlain),
                     AnalysisEntry("dialogue", FeedbackPlain)>>}}

\* SimpleAnalysis: the primary component alone, with the user's own feedback
SimpleAnalysis(id, feedback) ==
    [raised |-> FALSE, entries |-> <<AnalysisEntry(id.primary, feedback)>>]

\* analysis.get_components_to_update()
ComponentsToUpdate(analysis) ==
    [i \in 1..Len(analysis.entries) |-> analysis.entries[i].component_name]

\* the proposals the components' Proposers return during one run
ProposerApplies ==
    [c \in Components |->
        CASE c = "characters" ->
                 EntityChange("modify", Some(elenacross), Some(Character(MaraCross, "villain")))
          [] c = "locations" -> EntityChange("modify", Some(cafe), Some(Location(Park, "d3")))
          [] c = "dialogue" ->
                 DialogueChange("add", None, Some(SceneLine(Bob, "new")), None, Some(7))
          [] c = "scenes" -> SceneChange("remove", Some(1), None, Some(1), <<>>, None)
          [] OTHER -> NodeResult(Some(<<"n", "e", "w">>), Some("lookbook2"), None, None)]
ProposerRaises ==
    [c \in Components |->
        CASE c \in {"characters", "locations"} -> Raise(EntityChange("modify", None, None))
          [] c = "dialogue" -> Raise(DialogueChange("modify", None, None, None, None))
          [] c = "scenes" -> Raise(SceneChange("modify", None, None, Some(1), <<>>, None))
          [] OTHER -> Raise(NodeResult(None, None, None, None))]
\* the first components' Proposers fail inside the try, the later ones answer
ProposerMixed ==
    [c \in Components |->
        IF c \in {"characters", "draft"} THEN ProposerRaises[c] ELSE ProposerApplies[c]]
\* create_structured_llm raises for the characters' Proposer, the others answer
ProposerEscapes ==
    [c \in Components |->
        IF c = "characters" THEN Escape(EntityChange("modify", None, None))
        ELSE ProposerApplies[c]]
Proposers == {ProposerApplies, ProposerRaises, ProposerMixed, ProposerEscapes}

\* the update loop: update_component for every entry whose feedback is non-empty;
\* the loop has no try, an exception leaving update_component leaves the loop
RECURSIVE ApplyUpdates(_, _, _, _)
ApplyUpdates(st, entries, proposer, i) ==
    IF i > Len(entries) THEN [st |-> st, calls |-> <<>>, aborted |-> FALSE]
    ELSE LET e == entries[i]
             called == e.feedback # <<>>
             change == IF e.component_name \in Components THEN proposer[e.component_name]
                       ELSE Raise(NodeResult(None, None, None, None))
             escaped == called /\ e.component_name \in SurgicalComponents /\ Escapes(change)
         IN  \* s1 is the state after this call, rest what the remaining loop does
             CHOOSE done \in
                 UNION {{[st |-> rest.st,
                          calls |-> IF called THEN <<e.component_name>> \o rest.calls
                                    ELSE rest.calls,
                          aborted |-> rest.aborted] :
                            rest \in {IF escaped
                                      THEN [st |-> s1, calls |-> <<>>, aborted |-> TRUE]
                                      ELSE ApplyUpdates(s1, entries, proposer, i + 1)}} :
                        s1 \in {IF called
                                THEN UpdateComponent(st, e.component_name, e.feedback, change).st
                                ELSE st}} : TRUE

RECURSIVE SagaApplyUpdates(_, _, _, _)
SagaApplyUpdates(sg, entries, result, i) ==
    IF i > Len(entries) THEN [sg |-> sg, calls |-> <<>>, aborted |-> FALSE]
    ELSE LET e == entries[i]
             called == e.feedback # <<>>
             s1 == IF called THEN SagaUpdateComponent(sg, e.component_name, result) ELSE sg
             rest == SagaApplyUpdates(s1, entries, result, i + 1)
         IN  [sg |-> rest.sg,
              calls |-> IF called THEN <<e.component_name>> \o rest.calls ELSE rest.calls,
              aborted |-> FALSE]

\* what one run of orchestrate_revision leaves behind
Run(variant, targeted, feedback, id, pc, planned, calls) ==
    [pc |-> pc, variant |-> variant, targeted |-> targeted, feedback |-> feedback,
     primary |-> id.primary, dependents |-> id.dependents, via |-> id.via,
     planned |-> planned, calls |-> calls]

\* the components of the analysis the loop is to call update_component for, in order
RECURSIVE Planned(_, _)
Planned(entries, i) ==
    IF i > Len(entries) THEN <<>>
    ELSE (IF entries[i].feedback # <<>> THEN <<entries[i].component_name>> ELSE <<>>)
         \o Planned(entries, i + 1)

\* what the user types at "Proceed with updates? (yes/no): "
TypedAnswers ==
    { <<"y", "e", "s">>, <<"y">>, <<" ", "Y", "E", "S", " ">>, <<"n", "o">>, <<>> }

\* auto_apply, and what the user types when asked
Answers ==
    {[auto_apply |-> TRUE, typed |-> <<>>]}
    \cup {[auto_apply |-> FALSE, typed |-> t] : t \in TypedAnswers}

\* every answer but a no goes ahead
ConfirmedUnlessNo(typed) ==
    LowerStr(Strip(typed)) \notin {<<"n", "o">>, <<"n">>}

\* confirm = input(...).strip().lower(); confirm in ['yes', 'y']
Confirmed(typed) ==
    LowerStr(Strip(typed)) \in {<<"y", "e", "s">>, <<"y">>}

\* whether the run got as far as update_state_from_user_view / update_state_from_saga
Loaded(pc, targeted) ==
    pc \in {"exported", "aborted"} \/ (pc = "nothing" /\ ~targeted)
UserFeedbacks == {<<>>, FeedbackPlain, CafeToPark}

\* how a run ends: the analysis raised, named nothing, the user declined, an
\* exception left the update loop, or exported
Outcome(analysis, answer, aborted) ==
    IF analysis.raised THEN "raised"
    ELSE IF Len(ComponentsToUpdate(analysis)) = 0 THEN "nothing"
    ELSE IF ~answer.auto_apply /\ ~Confirmed(answer.typed) THEN "cancelled"
    ELSE IF aborted THEN "aborted"
    ELSE "exported"

\* the screenplay orchestrate_revision: the whole-document analysis is run in both
\* modes and its components replace the targeted list
OrchestrateRevision(targeted, feedback, id, full, answer, proposer) ==
    /\ revisions < MaxRuns
    /\ \E done \in {ApplyUpdates(state, full.entries, proposer, 1)} :
        LET analysis == full
            pc == Outcome(analysis, answer, done.aborted)
            applying == pc \in {"exported", "aborted"}
        IN  /\ state' = IF applying THEN done.st ELSE state
            /\ orch' = Run("screenplay", targeted, feedback, id, pc,
                           IF applying THEN Planned(analysis.entries, 1) ELSE <<>>,
                           IF applying THEN done.calls ELSE <<>>)
                            @@ [answer |-> answer, loaded |-> Loaded(pc, targeted)]
            /\ pre' = state
            /\ call' = NoCall
            /\ revisions' = revisions + 1
            /\ UNCHANGED saga

\* the saga orchestrate_revision: the analysis is run only outside targeted mode
SagaOrchestrateRevision(targeted, feedback, id, full, answer, result) ==
    LET analysis == IF targeted /\ feedback # <<>> THEN SimpleAnalysis(id, feedback) ELSE full
        done == SagaApplyUpdates(saga, analysis.entries, result, 1)
        pc == Outcome(analysis, answer, done.aborted)
    IN  /\ revisions < MaxRuns
        /\ saga' = IF pc = "exported" THEN done.sg ELSE saga
        /\ orch' = Run("saga", targeted, feedback, id, pc,
                       IF pc = "exported" THEN Planned(analysis.entries, 1) ELSE <<>>,
                       IF pc = "exported" THEN done.calls ELSE <<>>)
                        @@ [answer |-> answer, loaded |-> Loaded(pc, targeted)]
        /\ revisions' = revisions + 1
        /\ UNCHANGED <<state, pre, call>>

\* identify_components_with_llm called on its own, screenplay and saga
Identify(variant, feedback, outcome) ==
    LET id == IF variant = "saga"
              THEN IdentifyComponentsWithLlm(SagaComponentKeywords, "concept", feedback, outcome)
              ELSE IdentifyComponentsWithLlm(ComponentKeywords, "draft", feedback, outcome)
    IN  /\ revisions < MaxRuns
        /\ orch' = Run(variant, TRUE, feedback, id, "identified", <<>>, <<>>)
        /\ revisions' = revisions + 1
        /\ UNCHANGED <<state, pre, call, saga>>

Orchestrate ==
    \E targeted \in BOOLEAN, feedback \in UserFeedbacks :
        \E id \in Routes(targeted, feedback) :
            \E full \in Analyses, answer \in Answers, proposer \in Proposers :
                OrchestrateRevision(targeted, feedback, id, full, answer, proposer)

SagaOrchestrate ==
    \E targeted \in BOOLEAN, feedback \in UserFeedbacks :
        \E id \in SagaRoutes(targeted, feedback) :
            \E full \in Analyses, answer \in Answers, result \in SagaResults :
                SagaOrchestrateRevision(targeted, feedback, id, full, answer, result)

\* the saga update_component called on its own
SagaRevise(c, feedback, result) ==
    /\ revisions < MaxRuns
    /\ saga' = SagaUpdateComponent(saga, c, result)
    /\ orch' = Run("saga", FALSE, feedback, NotRouted, "updated", <<c>>, <<c>>)
                    @@ [raised |-> result.raised]
    /\ revisions' = revisions + 1
    /\ UNCHANGED <<state, pre, call>>

SagaUpdate ==
    \E c \in SagaComponents \cup {"draft"}, result \in SagaResults :
        SagaRevise(c, FeedbackPlain, result)

IdentifyComponents ==
    \E variant \in {"screenplay", "saga"}, feedback \in ClassifierFeedbacks,
       outcome \in ClassifierOutcomes :
        Identify(variant, feedback, outcome)

NextOrch ==
    \/ Orchestrate
    \/ SagaOrchestrate
    \/ IdentifyComponents
    \/ SagaUpdate

SpecOrch == Init /\ [][NextOrch]_vars

---------------------------------------------------------------------------
(* Vocabulary of the properties *)

DocFields ==
    {"title", "genre", "tone", "draft", "characters", "locations",
     "dialogue_scenes", "scenes", "visual_lookbook"}

\* the document field a component name stands for
FieldOf(c) == IF c = "dialogue" THEN "dialogue_scenes" ELSE c

Revised(c) == call.component = c

\* entity i is the first one whose name equals the target ignoring case
Located(coll, target, i) ==
    /\ i \in 1..Len(coll)
    /\ LowerStr(coll[i].name) = LowerStr(target)
    /\ \A j \in 1..(i - 1) : LowerStr(coll[j].name) # LowerStr(target)

\* the proposal is a modify that finds its target and gives it another name
RenameProposed(coll, change) ==
    /\ ~change.raised
    /\ change.action = "modify"
    /\ Truthy(change.target_name)
    /\ change.new_entity # None
    /\ \E i \in 1..Len(coll) :
           /\ Located(coll, change.target_name[1], i)
           /\ coll[i].name # change.new_entity[1].name

\* the fields rename propagation may rewrite during the last call
PropagationFields ==
    IF Revised("characters") /\ RenameProposed(pre.characters, call.change)
    THEN {"dialogue_scenes", "scenes", "draft"}
    ELSE IF Revised("locations") /\ RenameProposed(pre.locations, call.change)
    THEN {"scenes", "draft"}
    ELSE {}

C2_FailureRestoresSnapshot ==
    (call.component \in Components /\ call.failed) =>
        \A f \in DocFields : state[f] = pre[f]

\* the last run was in targeted mode with feedback
TargetedRun == orch.pc # "idle" /\ orch.targeted /\ orch.feedback # <<>>

\* C3: in targeted mode with non-empty feedback update_component is invoked for
\* the classifier's primary component and for nothing else: a run that reaches
\* the update loop invokes it once, for the primary component, and a run that
\* stops before the loop invokes it for nothing.
C3_OnlyPrimaryRevised ==
    TargetedRun =>
        /\ \A i \in 1..Len(orch.calls) : orch.calls[i] = orch.primary
        /\ orch.pc = "exported" => orch.calls = <<orch.primary>>

\* the proposal of the last call cannot be applied: its target matches nothing,
\* or the payload its action needs is missing
NotApplicable ==
    /\ ~call.change.raised
    /\ \/ /\ call.component \in {"characters", "locations"}
          /\ \/ call.change.action \in {"add", "modify"} /\ call.change.new_entity = None
             \/ /\ call.change.action \in {"modify", "remove"}
                /\ \/ ~Truthy(call.change.target_name)
                   \/ \A i \in 1..Len(pre[call.component]) :
                          LowerStr(pre[call.component][i].name)
                              # LowerStr(call.change.target_name[1])
       \/ /\ Revised("dialogue")
          /\ \/ call.change.action = "add" /\ call.change.new_dialogue = None
             \/ call.change.action = "modify" /\ call.change.modified_line = None
             \/ /\ call.change.action \in {"modify", "remove"}
                /\ \/ call.change.identification = None
                   \/ LET id == call.change.identification[1]
                      IN  /\ id.target_index = None \/ id.target_index[1] \notin 1..Len(pre.dialogue_scenes)
                          /\ \/ id.target_character = None
                             \/ \A i \in 1..Len(pre.dialogue_scenes) :
                                    LowerStr(pre.dialogue_scenes[i].character_name)
                                        # LowerStr(id.target_character[1])
       \/ /\ Revised("scenes")
          /\ \/ call.change.action \in {"add", "modify"} /\ call.change.new_scene = None
             \/ /\ call.change.action \in {"modify", "remove"}
                /\ \/ call.change.target_scene_number = None
                   \/ \A i \in 1..Len(pre.scenes) :
                          pre.scenes[i].scene_number # call.change.target_scene_number[1]

\* C4: a proposal that cannot be applied leaves every document field equal to
\* what it was before the call, for characters, locations, dialogue and scenes.
C4_NoOpLeavesDocument ==
    (call.component \in Components /\ NotApplicable) =>
        \A f \in DocFields : state[f] = pre[f]

C4_Witness ==
    /\ Revised("locations")
    /\ NotApplicable
    /\ call.change.action = "modify"
    /\ call.change.new_entity # None
    /\ Truthy(call.change.target_name)
    /\ Len(pre.locations) > 0

\* the positions the last call's target identifier can have located
TargetPositions(before) ==
    IF call.change.raised THEN {}
    ELSE IF call.component = "dialogue"
    THEN IF call.change.identification = None THEN {}
         ELSE LET id == call.change.identification[1]
              IN  {i \in 1..Len(before) :
                      \/ id.target_index = Some(i)
                      \/ /\ id.target_character # None
                         /\ LowerStr(before[i].character_name)
                                = LowerStr(id.target_character[1])}
    ELSE IF call.change.target_name = None THEN {}
    ELSE {i \in 1..Len(before) : LowerStr(before[i].name) = LowerStr(call.change.target_name[1])}

\* after is before, or before with the entity at one of the positions replaced
OneReplaced(before, after, positions) ==
    \/ after = before
    \/ /\ Len(after) = Len(before)
       /\ \E i \in positions : \A j \in 1..Len(before) : j # i => after[j] = before[j]

\* after is before, or before with the entity at one of the positions deleted and
\* the others in their order
OneDeleted(before, after, positions) ==
    \/ after = before
    \/ /\ Len(before) = Len(after) + 1
       /\ \E i \in positions :
              /\ \A j \in 1..(i - 1) : after[j] = before[j]
              /\ \A j \in i..Len(after) : after[j] = before[j + 1]

\* after is before, or before followed by one more entity
OneAppended(before, after) ==
    \/ after = before
    \/ /\ Len(after) = Len(before) + 1
       /\ \A j \in 1..Len(before) : after[j] = before[j]

\* C5: add, modify and remove on characters, locations or dialogue keep every
\* entity other than the one the target identifier locates, with its values and
\* in its relative order, and put an added entity last.
C5_OthersKept ==
    (call.component \in {"characters", "locations", "dialogue"}) =>
        LET before == pre[FieldOf(call.component)]
            after == state[FieldOf(call.component)]
        IN  CASE call.change.action = "add" ->
                    /\ OneAppended(before, after)
                    /\ (~call.change.raised /\ call.component # "dialogue"
                        /\ call.change.new_entity # None)
                           => after = Append(before, call.change.new_entity[1])
              [] call.change.action = "modify" ->
                    OneReplaced(before, after, TargetPositions(before))
              [] OTHER -> OneDeleted(before, after, TargetPositions(before))

C5_Witness ==
    /\ Revised("characters")
    /\ call.change.action = "remove"
    /\ Len(pre.characters) >= 2
    /\ Len(state.characters) = Len(pre.characters) - 1
    /\ state.characters[1] = pre.characters[2]

\* the scene numbers, in list order
SceneNumbersOf(scenes) == [i \in 1..Len(scenes) |-> scenes[i].scene_number]

\* the scenes are numbered 1..N in ascending order, one scene per number
Contiguous(scenes) == \A i \in 1..Len(scenes) : scenes[i].scene_number = i

\* the last call was an insert_between that named an anchor and supplied scenes
InsertAccepted ==
    /\ Revised("scenes")
    /\ ~call.change.raised
    /\ call.change.action = "insert_between"
    /\ call.change.insert_after_scene # None
    /\ Len(call.change.new_scenes) > 0 \/ call.change.new_scene # None

\* C6: from scenes numbered 1..N, an accepted insert_between after an existing
\* scene a with k supplied scenes gives N+k scenes numbered 1..N+k: the new ones
\* carry a+1..a+k, the former a+1..N carry a+k+1..N+k in their order, 1..a are
\* unchanged; 8 scenes and 2 inserted after scene 1 give new scenes 2 and 3 and
\* the former 2..8 as 4..10.
C6_InsertRenumbers ==
    /\ (InsertAccepted /\ Contiguous(pre.scenes)
        /\ call.change.insert_after_scene[1] \in 1..Len(pre.scenes)) =>
            LET a == call.change.insert_after_scene[1]
                n == Len(pre.scenes)
                supplied == IF Len(call.change.new_scenes) > 0 THEN call.change.new_scenes
                            ELSE <<call.change.new_scene[1]>>
                k == Len(supplied)
            IN  /\ Len(state.scenes) = n + k
                /\ Contiguous(state.scenes)
                /\ \A i \in 1..a : state.scenes[i] = pre.scenes[i]
                /\ \A i \in 1..k :
                       state.scenes[a + i] = [supplied[i] EXCEPT !.scene_number = a + i]
                /\ \A i \in (a + 1)..n :
                       state.scenes[i + k] = [pre.scenes[i] EXCEPT !.scene_number = i + k]
    /\ LET eight == [i \in 1..8 |-> LoadedScene(i)]
           ten == InsertBetween(eight, 1, <<ProposedScene(1), ProposedScene(1)>>)
       IN  /\ SceneNumbersOf(ten) = [i \in 1..10 |-> i]
           /\ ten[2].subject_action = <<"M">> /\ ten[3].subject_action = <<"M">>
           /\ \A i \in 2..8 : ten[i + 2] = [eight[i] EXCEPT !.scene_number = i + 2]

C6_Witness ==
    /\ InsertAccepted
    /\ Contiguous(pre.scenes)
    /\ Len(pre.scenes) = 3
    /\ call.change.insert_after_scene[1] = 1
    /\ Len(call.change.new_scenes) = 2
    /\ Len(state.scenes) = 5

\* C7: after every completed revision the scene numbers are 1..N, ascending, one
\* scene per number.
C7_ScenesStayContiguous == Contiguous(state.scenes)

\* the names of a collection are pairwise distinct ignoring case
NamesDistinct(coll) ==
    \A i, j \in 1..Len(coll) : i # j => LowerStr(coll[i].name) # LowerStr(coll[j].name)

\* C8: the names of the characters, and of the locations, stay pairwise distinct
\* ignoring case through add, modify and remove.
C8_NamesStayDistinct == NamesDistinct(state.characters) /\ NamesDistinct(state.locations)

\* the character the last call's proposal locates, and the name the payload gives it
LocatedCharacter == CHOOSE i \in 1..Len(pre.characters) :
                        Located(pre.characters, call.change.target_name[1], i)
OldName == pre.characters[LocatedCharacter].name
NewName == call.change.new_entity[1].name

\* the last call was a character modify that changed the stored name
NameChanged ==
    /\ Revised("characters")
    /\ RenameProposed(pre.characters, call.change)
    /\ Len(state.characters) = Len(pre.characters)
    /\ state.characters[LocatedCharacter].name = NewName

\* after is before with the speaker old turned into new, and nothing else touched
SpeakersRenamed(before, after, old, new) ==
    /\ Len(after) = Len(before)
    /\ \A j \in 1..Len(before) :
           /\ after[j].character_name # old
           /\ after[j] = IF before[j].character_name = old
                         THEN [before[j] EXCEPT !.character_name = new]
                         ELSE before[j]

\* C9: after a character modify that changes the stored name from old to new,
\* every entry of the top-level dialogue and of each scene's dialogue lines that
\* named exactly old names new, none still names old, and the entries of every
\* other speaker are unchanged.
C9_RenameReachesDialogue ==
    NameChanged =>
        /\ SpeakersRenamed(pre.dialogue_scenes, state.dialogue_scenes, OldName, NewName)
        /\ Len(state.scenes) = Len(pre.scenes)
        /\ \A n \in 1..Len(pre.scenes) :
               SpeakersRenamed(pre.scenes[n].dialogue_lines,
                               state.scenes[n].dialogue_lines, OldName, NewName)

C9_Witness ==
    /\ NameChanged
    /\ \E j \in 1..Len(pre.dialogue_scenes) :
           /\ pre.dialogue_scenes[j].character_name = OldName
           /\ state.dialogue_scenes[j].character_name = NewName
    /\ \E j \in 1..Len(pre.dialogue_scenes) :
           /\ LowerStr(pre.dialogue_scenes[j].character_name) = LowerStr(OldName)
           /\ pre.dialogue_scenes[j].character_name # OldName
    /\ \E n \in 1..Len(pre.scenes) : \E j \in 1..Len(pre.scenes[n].dialogue_lines) :
           /\ pre.scenes[n].dialogue_lines[j].character_name = OldName
           /\ state.scenes[n].dialogue_lines[j].character_name = NewName

\* position of the first occurrence of old in t, for a t that holds one
FirstAt(t, old) ==
    CHOOSE k \in 1..Len(t) : MatchAt(t, old, k) /\ \A j \in 1..(k - 1) : ~MatchAt(t, old, j)

\* t with its first occurrence of old turned into new
RewriteFirst(t, old, new) ==
    IF Contains(t, old)
    THEN SubSeq(t, 1, FirstAt(t, old) - 1) \o new
             \o SubSeq(t, FirstAt(t, old) + Len(old), Len(t))
    ELSE t

\* t with every occurrence of old turned into new, taken left to right
RECURSIVE RewriteEvery(_, _, _)
RewriteEvery(t, old, new) ==
    IF Contains(t, old)
    THEN SubSeq(t, 1, FirstAt(t, old) - 1) \o new
             \o RewriteEvery(SubSeq(t, FirstAt(t, old) + Len(old), Len(t)), old, new)
    ELSE t

\* the first white-space separated token of a name that has one
FirstToken(name) ==
    LET start == CHOOSE i \in 1..Len(name) : name[i] # " " /\ \A j \in 1..(i - 1) : name[j] = " "
        stop == IF \E i \in start..Len(name) : name[i] = " "
                THEN (CHOOSE i \in start..Len(name) :
                          name[i] = " " /\ \A j \in start..(i - 1) : name[j] # " ") - 1
                ELSE Len(name)
    IN  SubSeq(name, start, stop)

\* the free-text rule with the full name tried first and the first token second
FullNameElseFirstToken(Rewrite(_, _, _), t, old, new) ==
    IF Contains(t, old) THEN Rewrite(t, old, new)
    ELSE IF FirstToken(old) # old /\ Contains(t, FirstToken(old))
         THEN Rewrite(t, FirstToken(old), FirstToken(new))
    ELSE t

\* every free-text field of the document is its former value under the rule
FreeTextFollows(Rewrite(_, _, _)) ==
    /\ state.draft = FullNameElseFirstToken(Rewrite, pre.draft, OldName, NewName)
    /\ Len(state.scenes) = Len(pre.scenes)
    /\ \A n \in 1..Len(pre.scenes) :
           /\ state.scenes[n].subject_action =
                  FullNameElseFirstToken(Rewrite, pre.scenes[n].subject_action, OldName, NewName)
           /\ state.scenes[n].environmental_context =
                  FullNameElseFirstToken(Rewrite, pre.scenes[n].environmental_context,
                                         OldName, NewName)

\* C10 as stated: on a character rename at most one occurrence is rewritten in
\* each free-text field: the first occurrence of the old full name if there is
\* one, else the first occurrence of the old first token when the old name has
\* several tokens; a field without occurrence is unchanged.
C10_FirstOccurrenceOnly == NameChanged => FreeTextFollows(RewriteFirst)

\* C10 amended: on a character rename every occurrence of the old full name in a
\* free-text field is rewritten to the new full name; a field without the full
\* name has every occurrence of the old first token rewritten to the new first
\* token when the old name has several tokens; a field with neither is unchanged.
C10_EveryOccurrence == NameChanged => FreeTextFollows(RewriteEvery)

C10_Witness ==
    /\ NameChanged
    /\ pre.draft = <<"E", " ", "C", "x", "E", " ", "C", "x", "K">>
    /\ OldName = ElenaCross
    /\ NewName = MaraCross
    /\ state.draft = <<"M", " ", "C", "x", "M", " ", "C", "x", "K">>

\* the location the last call's proposal locates, and the name the payload gives it
LocatedLocation == CHOOSE i \in 1..Len(pre.locations) :
                       Located(pre.locations, call.change.target_name[1], i)
OldLocation == pre.locations[LocatedLocation].name
NewLocation == call.change.new_entity[1].name

\* the last call was a location modify that changed the stored name
LocationNameChanged ==
    /\ Revised("locations")
    /\ RenameProposed(pre.locations, call.change)
    /\ Len(state.locations) = Len(pre.locations)
    /\ state.locations[LocatedLocation].name = NewLocation

\* old stands at position i of t ignoring case, with no word character next to it
\* (a blank or an end of the text on either side)
WholeWordAt(t, old, i) ==
    /\ MatchAt(LowerStr(t), LowerStr(old), i)
    /\ i = 1 \/ t[i - 1] = " "
    /\ i + Len(old) > Len(t) \/ t[i + Len(old)] = " "

\* t from position i on, with every whole-word occurrence of old turned into new
RECURSIVE RewriteWholeWords(_, _, _, _)
RewriteWholeWords(t, old, new, i) ==
    IF i > Len(t) THEN <<>>
    ELSE IF WholeWordAt(t, old, i) THEN new \o RewriteWholeWords(t, old, new, i + Len(old))
    ELSE <<t[i]>> \o RewriteWholeWords(t, old, new, i + 1)

\* C11: on a location rename every occurrence of the old name that is a whole
\* match ignoring case is replaced by the new name in each scene's
\* environmental_context and in the draft, an occurrence inside a longer word is
\* not rewritten, and subject_action, dialogue lines and characters are untouched.
C11_WholeNameOnly ==
    LocationNameChanged =>
        /\ state.draft = RewriteWholeWords(pre.draft, OldLocation, NewLocation, 1)
        /\ Len(state.scenes) = Len(pre.scenes)
        /\ \A n \in 1..Len(pre.scenes) :
               /\ state.scenes[n].environmental_context =
                      RewriteWholeWords(pre.scenes[n].environmental_context,
                                        OldLocation, NewLocation, 1)
               /\ state.scenes[n].subject_action = pre.scenes[n].subject_action
               /\ state.scenes[n].dialogue_lines = pre.scenes[n].dialogue_lines
        /\ state.dialogue_scenes = pre.dialogue_scenes
        /\ state.characters = pre.characters

\* the last call was a character or location modify whose rename propagation raised
PropagationRaised ==
    /\ call.component \in {"characters", "locations"}
    /\ RenameProposed(pre[call.component], call.change)
    /\ call.propagated
    /\ call.failed

\* C12: when rename propagation raises after the located entity was replaced,
\* the patch is kept: the collection holds the replacement entity at the located
\* position when update_component returns.
C12_PatchKeptOnPropagationFailure ==
    PropagationRaised =>
        \E i \in 1..Len(pre[call.component]) :
            /\ Located(pre[call.component], call.change.target_name[1], i)
            /\ Len(state[call.component]) = Len(pre[call.component])
            /\ state[call.component][i] = call.change.new_entity[1]

\* C13: whenever update_component has finished, with any outcome, the state holds
\* no '<component>_feedback' key and no 'allow_scene_increase' key.
C13_TransientKeysCleared ==
    /\ state.feedback_keys = {}
    /\ state.allow_scene_increase = None

\* the keyword table and the default of a variant's identify_components_with_llm
KeywordTableOf(variant) ==
    IF variant = "saga" THEN SagaComponentKeywords ELSE ComponentKeywords
DefaultOf(variant) == IF variant = "saga" THEN "concept" ELSE "draft"

\* the rows of a variant's table with a keyword occurring in the lowercased feedback
RowsHit(variant, feedback) ==
    {i \in 1..Len(KeywordTableOf(variant)) :
        \E k \in 1..Len(KeywordTableOf(variant)[i].keywords) :
            Contains(LowerStr(feedback), KeywordTableOf(variant)[i].keywords[k])}

FallbackTaken(o) == o.pc # "idle" /\ o.via = "keyword_fallback"

\* C14: the keyword fallback of identify_components_with_llm returns exactly one
\* primary component of the variant's own set, the first in table order with a keyword
\* in the lowercased feedback, the default (draft, concept) when there is none, with
\* an empty dependent list, and the call changes neither the document nor the saga
C14_FallbackFirstInTableOrder ==
    [][FallbackTaken(orch') =>
        LET table == KeywordTableOf(orch'.variant)
            rows == RowsHit(orch'.variant, orch'.feedback)
        IN  /\ orch'.primary \in {table[i].component : i \in 1..Len(table)}
            /\ \/ rows = {} /\ orch'.primary = DefaultOf(orch'.variant)
               \/ \E i \in rows : /\ \A j \in rows : i <= j
                                  /\ orch'.primary = table[i].component
            /\ orch'.dependents = <<>>
            /\ orch'.pc = "identified" => state' = state /\ saga' = saga]_vars

\* a direct call fell back on feedback naming two components and took the earlier row
C14_Witness ==
    /\ orch.pc = "identified" /\ orch.via = "keyword_fallback"
    /\ Cardinality(RowsHit(orch.variant, orch.feedback)) >= 2
    /\ orch.primary = "locations"

\* a targeted screenplay run on "change the cafe to a park" whose classifier raised
CafeToParkFellBack ==
    /\ orch.pc \notin {"idle", "identified"}
    /\ orch.variant = "screenplay" /\ orch.targeted
    /\ orch.feedback = CafeToPark
    /\ orch.via \in {"keyword_fallback", "react_fallback"}

\* C15: with the classifier unavailable, "change the cafe to a park" is routed to the
\* locations component on either routing path (use_react true: _fallback_analysis;
\* use_react false: the fallback of identify_components_with_llm)
C15_CafeToParkRoutedToLocations ==
    CafeToParkFellBack => orch.primary = "locations"

\* what update_component hands back to its caller: the state dictionary it returns,
\* or the exception that left it
HandedBack ==
    IF call.escaped THEN [exception |-> TRUE]
    ELSE [exception |-> FALSE, value |-> state]

\* a proposal of the component's kind that is answered by a warning: no payload, no target
WarnedChange(c) ==
    CASE c \in {"characters", "locations"} -> EntityChange("modify", None, None)
      [] c = "dialogue" -> DialogueChange("modify", None, None, None, None)
      [] c = "scenes" -> SceneChange("modify", None, None, Some(1), <<>>, None)

\* what the same call on the same document hands back when it ends in a warning
WarnedHandedBack ==
    [exception |-> FALSE,
     value |-> UpdateComponent(pre, call.component, call.feedback,
                               WarnedChange(call.component)).st]

\* C16: what update_component hands back tells a failed revision from a no-op with a
\* warning (and both from an applied change): a failed call never hands back what
\* the call would have handed back had it ended in a warning
C16_OutcomesToldApart ==
    (call.component \in SurgicalComponents /\ call.failed) =>
        HandedBack # WarnedHandedBack

\* the run got past the confirmation and entered the update loop
LoopEntered == orch.pc \in {"exported", "aborted"}

\* C17: in a run over several components a failure while one of them is revised
\* never stops the run: update_component is invoked for every component with
\* feedback, in order, and the export step is executed afterwards
C17_FailureNeverStopsRun ==
    LoopEntered => orch.calls = orch.planned /\ orch.pc = "exported"

\* the identity the last call looks for, None when it does not look up by identity:
\* the target name of a modify or remove on characters or locations, the target
\* character of a remove on dialogue that gives no index
LookedUp ==
    IF call.component \notin {"characters", "locations", "dialogue"} \/ call.change.raised
    THEN None
    ELSE IF call.component = "dialogue"
    THEN IF /\ call.change.action = "remove"
            /\ call.change.identification # None
            /\ call.change.identification[1].target_index \in {None, Some(0)}
            /\ Truthy(call.change.identification[1].target_character)
         THEN call.change.identification[1].target_character
         ELSE None
    ELSE IF /\ call.change.action \in {"modify", "remove"}
            /\ Truthy(call.change.target_name)
            /\ call.change.action = "modify" => call.change.new_entity # None
    THEN call.change.target_name
    ELSE None

\* the identity field of an entity of the last call's component
IdentityOf(entity) ==
    IF call.component = "dialogue" THEN entity.character_name ELSE entity.name

\* the positions whose identity equals the identifier looked up, ignoring case
Matching(before) ==
    {i \in 1..Len(before) : LowerStr(IdentityOf(before[i])) = LowerStr(LookedUp[1])}

\* C18: modify and remove on characters and locations, and remove by character on
\* dialogue, act on the first entity in list order whose identity equals the target
\* ignoring case: exactly that entity is replaced or deleted, also when several
\* match and when the target differs from the stored name in letter case only
C18_FirstMatchIgnoringCase ==
    (LookedUp # None /\ ~call.failed) =>
        LET before == pre[FieldOf(call.component)]
            after == state[FieldOf(call.component)]
        IN  \A i \in Matching(before) :
                (\A j \in Matching(before) : i <= j) =>
                    IF call.change.action = "modify"
                    THEN after = [before EXCEPT ![i] = call.change.new_entity[1]]
                    ELSE /\ Len(after) = Len(before) - 1
                         /\ \A j \in 1..(i - 1) : after[j] = before[j]
                         /\ \A j \in i..Len(after) : after[j] = before[j + 1]

\* a line of a character with several lines was removed by a name that is not
\* spelled as the first of them is stored
C18_Witness ==
    /\ LookedUp # None /\ ~call.failed
    /\ call.component = "dialogue"
    /\ Cardinality(Matching(pre.dialogue_scenes)) >= 2
    /\ \E i \in Matching(pre.dialogue_scenes) :
           /\ \A j \in Matching(pre.dialogue_scenes) : i <= j
           /\ pre.dialogue_scenes[i].character_name # LookedUp[1]
    /\ Len(state.dialogue_scenes) = Len(pre.dialogue_scenes) - 1

\* the last call was a dialogue modify that went through
DialogueModified ==
    /\ call.component = "dialogue"
    /\ ~call.change.raised /\ ~call.failed
    /\ call.change.action = "modify"

\* the entries of the dialogue whose content differs after the call
LinesTouched ==
    {i \in 1..Len(pre.dialogue_scenes) :
        i > Len(state.dialogue_scenes) \/ state.dialogue_scenes[i] # pre.dialogue_scenes[i]}

\* the position a dialogue identification resolves to, 0 when it resolves to none:
\* the 1-based index when one is given, else the first line of the character
ResolvedLine(before, id) ==
    IF id.target_index # None /\ id.target_index[1] # 0
    THEN IF id.target_index[1] \in 1..Len(before) THEN id.target_index[1] ELSE 0
    ELSE IF id.target_character = None THEN 0
    ELSE LET hits == {i \in 1..Len(before) :
                         LowerStr(before[i].character_name) = LowerStr(id.target_character[1])}
         IN  IF hits = {} THEN 0 ELSE CHOOSE i \in hits : \A j \in hits : i <= j

\* C19: a dialogue modify, its target resolved by 1-based index or by character
\* name (first match ignoring case), changes the line text of one entry only, the
\* resolved one; the number of entries, their order, and every entry's
\* character_name and scene_number are as before
C19_ModifyChangesOneLineText ==
    DialogueModified =>
        /\ Len(state.dialogue_scenes) = Len(pre.dialogue_scenes)
        /\ \A i \in 1..Len(pre.dialogue_scenes) :
               /\ state.dialogue_scenes[i].character_name = pre.dialogue_scenes[i].character_name
               /\ state.dialogue_scenes[i].scene_number = pre.dialogue_scenes[i].scene_number
        /\ Cardinality(LinesTouched) <= 1
        /\ (call.change.identification # None /\ call.change.modified_line \notin {None, Some("")})
               => LET i == ResolvedLine(pre.dialogue_scenes, call.change.identification[1])
                  IN  /\ LinesTouched \subseteq {i}
                      /\ i # 0 => state.dialogue_scenes[i].line = call.change.modified_line[1]

\* the first of a character's several lines was rewritten, found by a name in
\* another letter case
C19_Witness ==
    /\ DialogueModified
    /\ call.change.identification # None
    /\ call.change.identification[1].target_index = None
    /\ call.change.identification[1].target_character # None
    /\ LinesTouched = {1}
    /\ pre.dialogue_scenes[1].character_name # call.change.identification[1].target_character[1]
    /\ \E j \in 2..Len(pre.dialogue_scenes) :
           LowerStr(pre.dialogue_scenes[j].character_name)
               = LowerStr(call.change.identification[1].target_character[1])

\* C20: the saga update_component(c, feedback), c one of the six saga components,
\* whatever dictionary the generation node returns, leaves every component other
\* than c as it was, an absent one absent, and all six as they were when the node
\* raises
C20_SagaOthersUnchanged ==
    [][(orch'.pc = "updated" /\ orch'.calls[1] \in SagaComponents) =>
          /\ \A k \in SagaComponents \ {orch'.calls[1]} : saga'[k] = saga[k]
          /\ orch'.raised => saga' = saga]_vars

\* the anchor of the last insert_between, and the position of the first scene that
\* carried that number before the call (0 when no scene did)
Anchor == call.change.insert_after_scene[1]
AnchorPosition ==
    IF \E i \in 1..Len(pre.scenes) : pre.scenes[i].scene_number = Anchor
    THEN CHOOSE i \in 1..Len(pre.scenes) :
             /\ pre.scenes[i].scene_number = Anchor
             /\ \A j \in 1..(i - 1) : pre.scenes[j].scene_number # Anchor
    ELSE 0

\* the number of scenes the last call inserted
Inserted == Len(state.scenes) - Len(pre.scenes)

\* where the scene that was at position i before an insert_between is afterwards:
\* the new scenes stand right behind the anchor, or last when there is no anchor
PositionAfterInsert(i) ==
    IF AnchorPosition # 0 /\ i > AnchorPosition THEN i + Inserted ELSE i

\* C21: an insert_between after an existing scene raises by the number of inserted
\* scenes the scene_number of every existing scene whose number exceeds the anchor,
\* and of no other scene, whatever scene list earlier revisions left (gaps,
\* numbers out of order, repeated numbers)
C21_ShiftsExactlyNumbersAboveAnchor ==
    (InsertAccepted /\ AnchorPosition # 0) =>
        /\ Inserted >= 1
        /\ \A i \in 1..Len(pre.scenes) :
               state.scenes[PositionAfterInsert(i)] =
                   [pre.scenes[i] EXCEPT !.scene_number =
                       IF pre.scenes[i].scene_number > Anchor THEN @ + Inserted ELSE @]

\* the scenes an insert_between proposal supplies: new_scenes, else the one new_scene
Supplied ==
    IF Len(call.change.new_scenes) > 0 THEN call.change.new_scenes
    ELSE <<call.change.new_scene[1]>>

\* C22: an insert_between whose anchor is the number of no existing scene (0 and
\* numbers beyond the last included) appends the new scenes behind all existing
\* ones, renumbers no existing scene, and leaves the numbers 1..N, N the previous
\* count plus the inserted count, ascending, without gap or duplicate
C22_MissingAnchorAppends ==
    (InsertAccepted /\ AnchorPosition = 0 /\ Contiguous(pre.scenes)) =>
        /\ Len(state.scenes) = Len(pre.scenes) + Len(Supplied)
        /\ \A i \in 1..Len(pre.scenes) : state.scenes[i] = pre.scenes[i]
        /\ Contiguous(state.scenes)

\* the count of an insert_between proposal: num_scenes_to_insert, 1 when it is
\* missing or zero
Count ==
    IF call.change.num_scenes_to_insert \in {None, Some(0)} THEN 1
    ELSE call.change.num_scenes_to_insert[1]

\* C23: an insert_between inserts exactly count scenes, count the proposal's
\* num_scenes_to_insert, numbered insert_after_scene+1 .. insert_after_scene+count,
\* so the list grows by count whatever the length of the new_scenes list supplied
C23_InsertsCountScenes ==
    InsertAccepted =>
        /\ Len(state.scenes) = Len(pre.scenes) + Count
        /\ LET first == IF AnchorPosition # 0 THEN AnchorPosition ELSE Len(pre.scenes)
           IN  \A i \in 1..Count :
                   /\ first + i <= Len(state.scenes)
                   /\ state.scenes[first + i].scene_number = Anchor + i

\* the last call was a scene add that supplied a scene
AddAccepted ==
    /\ call.component = "scenes"
    /\ ~call.change.raised
    /\ call.change.action = "add"
    /\ call.change.new_scene # None

\* the largest scene number of a list, 0 for the empty list
MaxSceneNumber(scenes) ==
    IF Len(scenes) = 0 THEN 0
    ELSE CHOOSE n \in {scenes[i].scene_number : i \in 1..Len(scenes)} :
             \A i \in 1..Len(scenes) : scenes[i].scene_number <= n

\* C24: an accepted scene add appends exactly one scene at the end, numbered the
\* previous maximum scene number plus 1 whatever number the payload carried; from
\* scenes numbered 1..N the result is numbered 1..N+1
C24_AddNumbersNextScene ==
    AddAccepted =>
        /\ Len(state.scenes) = Len(pre.scenes) + 1
        /\ \A i \in 1..Len(pre.scenes) : state.scenes[i] = pre.scenes[i]
        /\ state.scenes[Len(state.scenes)].scene_number = MaxSceneNumber(pre.scenes) + 1
        /\ Contiguous(pre.scenes) => Contiguous(state.scenes)

\* the last call was a scene remove that named a target and went through
RemoveCalled ==
    /\ call.component = "scenes"
    /\ ~call.change.raised /\ ~call.failed
    /\ call.change.action = "remove"
    /\ call.change.target_scene_number # None

\* the positions of the scenes that carried the target number before the call
TargetScenes ==
    {i \in 1..Len(pre.scenes) :
        pre.scenes[i].scene_number = call.change.target_scene_number[1]}

\* C25: a scene remove deletes exactly the first scene whose scene_number equals
\* the target; every other scene keeps its scene_number, its content and its place
\* in the order: later scenes are not renumbered, the removed number stays free
C25_RemoveLeavesGap ==
    RemoveCalled =>
        IF TargetScenes = {} THEN state.scenes = pre.scenes
        ELSE \E i \in TargetScenes :
                 /\ \A j \in TargetScenes : i <= j
                 /\ Len(state.scenes) = Len(pre.scenes) - 1
                 /\ \A j \in 1..(i - 1) : state.scenes[j] = pre.scenes[j]
                 /\ \A j \in i..Len(state.scenes) : state.scenes[j] = pre.scenes[j + 1]

\* scene 2 of three was removed and scene 3 still carries the number 3
C25_Witness ==
    /\ RemoveCalled
    /\ SceneNumbersOf(pre.scenes) = <<1, 2, 3>>
    /\ call.change.target_scene_number = Some(2)
    /\ SceneNumbersOf(state.scenes) = <<1, 3>>

\* C26: rename propagation runs during a revision exactly when the revision is a
\* modify on characters or locations whose target is found and whose payload
\* carries a name other than the stored one; never for add, remove, a target not
\* found, a modify keeping the name, or a revision of another component
C26_PropagationOnlyOnRename ==
    (call.component # "none") =>
        (call.propagated <=>
            /\ call.component \in {"characters", "locations"}
            /\ RenameProposed(pre[call.component], call.change))

\* a location was found under another letter case and renamed, and the draft was
\* rewritten by the propagation
C26_Witness ==
    /\ call.component = "locations"
    /\ call.propagated /\ ~call.failed
    /\ call.change.target_name = Some(cafe)
    /\ state.draft # pre.draft

ModifyCalled ==
    /\ Revised("scenes")
    /\ ~call.escaped /\ ~call.change.raised
    /\ call.change.action = "modify"
    /\ call.change.target_scene_number # None
    /\ call.change.new_scene # None

\* C28: after a modify of scene n is applied, the scene at that list position
\* still has scene_number n and the list of scene numbers, in order, is the one
\* before the revision, whatever scene_number the replacement carries
C28_ModifyKeepsNumbering ==
    ModifyCalled => SceneNumbersOf(state.scenes) = SceneNumbersOf(pre.scenes)

\* the last call named a component update_component does not know
UnknownRevised == call.component # "none" /\ call.component \notin Components

\* C29: update_component with a name outside the six known ones leaves the state
\* as it was: no document field changes, no feedback key or flag is created, and
\* nothing the generation node would have returned or raised has any effect
C29_UnknownComponentNoEffect ==
    UnknownRevised =>
        /\ state = pre
        /\ FeedbackKey(call.component) \notin (state.feedback_keys \ pre.feedback_keys)
        /\ state.allow_scene_increase = pre.allow_scene_increase
        /\ ~call.failed /\ ~call.propagated /\ ~call.escaped

\* an unknown name was revised while a node result carrying a new draft was at hand
C29_Witness ==
    /\ UnknownRevised
    /\ call.change.draft # None
    /\ state = pre

\* the run that ends in this step put the confirmation question to the user
AskedNow ==
    /\ orch'.pc \in {"cancelled", "exported", "aborted"}
    /\ ~orch'.answer.auto_apply

\* the run that ends in this step revised nothing, loaded nothing into the state,
\* exported nothing and returned empty results
NothingDoneNow ==
    /\ orch'.pc = "cancelled"
    /\ orch'.calls = <<>> /\ orch'.planned = <<>>
    /\ ~orch'.loaded
    /\ state' = state /\ saga' = saga

\* C30 as stated: with auto_apply off, an answer to the confirmation that is
\* anything other than yes revises no component, leaves the in-memory state
\* alone, exports nothing and returns empty results
C30_AnyAnswerButYesCancels ==
    [][(AskedNow /\ orch'.answer.typed # <<"y", "e", "s">>) => NothingDoneNow]_vars

\* C30: with auto_apply off, an answer that, trimmed and lower-cased, is neither
\* yes nor y revises no component, leaves the in-memory state alone, exports
\* nothing and returns empty results
C30_AnswerNotYesOrYCancels ==
    [][(AskedNow /\ LowerStr(Strip(orch'.answer.typed)) \notin {<<"y", "e", "s">>, <<"y">>})
          => NothingDoneNow]_vars

\* the user was asked, just pressed Enter, and the run was cancelled with nothing loaded
C30_Witness ==
    /\ orch.pc = "cancelled"
    /\ ~orch.answer.auto_apply /\ orch.answer.typed = <<>>
    /\ orch.calls = <<>> /\ ~orch.loaded

====
